---- MODULE Spec2Model ----
(***************************************************************************)
(* Repeater-chain entanglement distribution (src/src): the orchestrator    *)
(* generate_end_to_end, the generation processes it spawns on the simpy    *)
(* event queue, the per-neighbour memory lists and busy flags of the       *)
(* nodes, and the topology/path construction used by runner.run.           *)
(*                                                                         *)
(* Numbers.  Fidelities are fixed-point integers in units of 1/FScale      *)
(* (division rounds down).  The simulated clock counts ticks; one tick is  *)
(* the one-way propagation delay of one kilometre of fibre, so a link of   *)
(* length L has latency L and an attempt takes 2*L ticks.  Random draws    *)
(* (random.random()) are nondeterministic choices over the outcomes the    *)
(* comparison in the code can produce.                                     *)
(*                                                                         *)
(* Specifications.  Spec is one trial (one generate_end_to_end process     *)
(* run by env.run()); CertainSpec is one trial on links of success_prob 1; *)
(* RunSpec is runner.run over a batch of trials; SeedSpec is the command   *)
(* line invoked twice with the same arguments, the generator of the random *)
(* module in a definite state; NodeSpec calls one Node's memory            *)
(* operations directly; SweepSpec is sweep._adaptive_run around run();     *)
(* TunedSpec is run() with a coherence time among its parameters;          *)
(* ThreeHopSpec is run() on a linear path of three hops with no decay      *)
(* configured; PureSpec calls swap, the fold of swaps and dejmps on exact  *)
(* fractions, one call per behaviour; FairSpec is one trial on a short     *)
(* linear path under weak fairness of the event loop; BothSpec is one      *)
(* trial with either strategy followed by one with the other on the same   *)
(* draws.                                                                  *)
(***************************************************************************)
EXTENDS Integers, Sequences, FiniteSets, TLC

\* ---------------------------------------------------------------- bounds
MaxNodes == 3
MaxRounds == 2
max_trials == 2
MaxRetries == 1
\* the largest number of attempts one main batch launches on an empty memory
MaxBatch == 6

\* ------------------------------------------------------------- constants
FScale == 100
F0_LINK == 90

\* exp(-1/DEFAULT_COHERENCE_TIME_S) per tick, as the fraction num/den
DecayPerTick == <<9, 10>>

Thresholds == {0, F0_LINK}
Topologies == {"linear", "ring", "star"}
Strategies == {"purify_then_swap", "swap_then_purify"}

LinkLengths == {1}

ATTENUATION_LENGTH_KM == 22
DETECTION_EFFICIENCY == 90

\* the random module's generator as a full-period congruential generator:
\* x' = (a * x + c) % m, and random.random() returns x / m
Lcg == [a |-> 5, c |-> 3, m |-> 8]

VARIABLES
    params,      \* the configuration record handed to runner.run
    now,         \* env.now
    memory,      \* Node.memory: <<node, neighbour>> -> list of registers
    comm_busy,   \* Node.comm_busy: <<node, neighbour>> -> busy flag
    procs,       \* gen_processes: the try_generate processes of the batch
    pc,          \* where generate_end_to_end stands
    trials,      \* local trials
    raw_pairs,   \* local raw_pairs
    cur,         \* loop cursor: <<link index, rounds done>> / <<aux index, 0>>
    end_pairs,   \* local end_pairs
    F_end,       \* local F_end
    survivor_F,  \* local survivor_F
    result,      \* the returned tuple (latency, F_end, raw_pairs)
    error,       \* the message of the RuntimeError raised, or "none"
    retries,     \* inner-loop retries of this outer iteration (history)
    last,        \* name of the step taken last (history)
    success_prob,\* FibreLink.success_prob (the same on every link)
    rng,         \* state of the random module's generator
    attempts,    \* try_generate processes started so far in this trial (history)
    gen_failed,  \* some attempt of this trial has failed (history)
    batch,       \* what the entry point was called with: runs, collect, seed
    per,         \* run(): the list of per-trial results
    summary,     \* run(): the summary, once computed
    emitted,     \* run(): how the summary left: "returned", "printed", "none"
    run_pc,      \* where run() stands
    np_rng,      \* state of NumPy's global generator
    invocation,  \* which invocation of the entry point this is
    first,       \* how the invocations began and how the first ended (history)
    call,        \* the last call made on a Node directly, with what it returned
    sweep,       \* _adaptive_run(): where it stands, thr_init, what it returned
    physics,     \* the PhysicsConfig singleton: its DEFAULT_COHERENCE_TIME_S
    trace        \* what the nodes went through in this trial (history)

\* what a trial never touches
outer == <<success_prob, batch, per, summary, emitted, run_pc, np_rng,
           invocation, first, call, sweep, physics>>

\* what the random draws touch
draws == <<rng, attempts, gen_failed>>

vars == <<params, now, memory, comm_busy, procs, pc, trials, raw_pairs,
          cur, end_pairs, F_end, survivor_F, result, error, retries, last,
          success_prob, rng, attempts, gen_failed, batch, per, summary,
          emitted, run_pc, np_rng, invocation, first, call, sweep,
          physics, trace>>

\* ------------------------------------------------------------- topology
\* build(): the links of the graph, each a pair <<a, b>> of node ids
build(topo, n) ==
    CASE topo = "linear" -> [i \in 1 .. (n - 1) |-> <<i - 1, i>>]
      [] topo = "ring"   -> [i \in 1 .. n |-> <<i - 1, i % n>>]
      [] topo = "star"   -> [i \in 1 .. (n - 1) |-> <<0, i>>]

\* _get_path(): the ordered links from Alice to Bob
get_path(links, topo) ==
    CASE topo = "linear" -> links
      [] topo = "ring"   -> SubSeq(links, 1, Len(links) - 1)
      [] topo = "star"   -> <<links[1], links[Len(links)]>>

path == get_path(build(params.topology, params.nodes), params.topology)

\* the <<node, neighbour>> keys of the graph's links, both directions
LinkKeys(links) ==
    {<<links[i][1], links[i][2]>> : i \in 1 .. Len(links)}
        \cup {<<links[i][2], links[i][1]>> : i \in 1 .. Len(links)}

rounds == params.rounds

\* variant: one pair fewer is kept in stock per link
neededOneFewer == IF rounds > 1 THEN rounds ELSE 1

\* needed = rounds + 1
needed == rounds + 1

\* ------------------------------------------------------- memory register
\* QuantumMemory: F0 and birth are the object's fields; pur counts the
\* accepted purification rounds the register has survived (history only).
Register(f, t, k) == [F0 |-> f, birth |-> t, pur |-> k]

RECURSIVE Decay(_, _)
Decay(f, dt) ==
    IF dt <= 0 THEN f
    ELSE Decay((f * DecayPerTick[1]) \div DecayPerTick[2], dt - 1)

\* QuantumMemory.fidelity()
fidelity(q, t) == Decay(q.F0, t - q.birth)

\* QuantumMemory.reset()
reset(q, f, t) == [q EXCEPT !.F0 = f, !.birth = t]

\* variant: only the register of the first endpoint is reset
ResetPairFirstOnly(qa, qb, f, t) == <<reset(qa, f, t), qb>>

\* _purify_pair() on success: qa.reset(F_new); qb.reset(F_new)
ResetPair(qa, qb, f, t) == <<reset(qa, f, t), reset(qb, f, t)>>

\* Node.add_memory_qubit(): append a fresh register to node x's list for y
add_memory_qubit(m, x, y, f, t) ==
    [m EXCEPT ![<<x, y>>] = Append(@, Register(f, t, 0))]

\* Node.pop_memory_qubits() guard: enough registers for the request
CanPop(m, x, y, n) == Len(m[<<x, y>>]) >= n

\* variant: the n newest registers are dropped
pop_memory_qubitsNewest(m, x, y, n) ==
    [m EXCEPT ![<<x, y>>] = SubSeq(@, 1, Len(@) - n)]

\* Node.pop_memory_qubits(): drop the n oldest registers
pop_memory_qubits(m, x, y, n) ==
    [m EXCEPT ![<<x, y>>] = SubSeq(@, n + 1, Len(@))]

\* variant: the survivor is appended at the tail instead
InsertHeadAtTail(m, x, y, q) == [m EXCEPT ![<<x, y>>] = Append(@, q)]

\* a.memory[b].insert(0, q): put the survivor back at the head of the list
InsertHead(m, x, y, q) == [m EXCEPT ![<<x, y>>] = <<q>> \o @]

\* Node.peek_memory_fidelity()
peek_memory_fidelity(m, x, y, t) == fidelity(m[<<x, y>>][1], t)

\* --------------------------------------------------------- pure protocols
\* A fidelity as an exact fraction <<numerator, denominator>>, the
\* denominator positive; Q(f) is the fixed-point fidelity f as a fraction.
Q(f) == <<f, FScale>>

\* variant: the Werner parameter is multiplied back by 3
swapQTimes3(F1, F2) ==
    << F1[2] * F2[2] + (4 * F1[1] - F1[2]) * (4 * F2[1] - F2[2]),
       4 * F1[2] * F2[2] >>

\* swapping.swap() on fractions, exactly:
\* num = (4*F1 - 1) * (4*F2 - 1); return (1 + num/3) / 4
swapQ(F1, F2) ==
    << 3 * F1[2] * F2[2] + (4 * F1[1] - F1[2]) * (4 * F2[1] - F2[2]),
       12 * F1[2] * F2[2] >>

\* swapping.swap() on fixed-point fidelities: the exact value, rounded down
swap(f1, f2) ==
    LET r == swapQ(Q(f1), Q(f2)) IN (FScale * r[1]) \div r[2]

\* variant: G2 is multiplied by 9 instead of divided
dejmpsQTimes9(f) ==
    LET g  == FScale - f
        pn == 9 * f * f + g * g + 6 * f * g
    IN  [F_new |-> <<81 * f * f + 81 * g * g, 9 * pn>>,
         P     |-> <<pn, 9 * FScale * FScale>>]

\* purification.dejmps() on the fixed-point fidelity f, exactly: with
\* g = FScale - f, G = g / (3 FScale), so that
\* P = F2 + G2 + 2FG = pn / (9 FScale^2) and
\* F_new = (F2 + G2/9) / P = (81 f^2 + g^2) / (9 pn)
dejmpsQ(f) ==
    LET g  == FScale - f
        pn == 9 * f * f + g * g + 6 * f * g
    IN  [F_new |-> <<81 * f * f + g * g, 9 * pn>>,
         P     |-> <<pn, 9 * FScale * FScale>>]

\* purification.dejmps(): <<F_new, Pnum, Pden>>, F_new rounded down to the
\* grid, P = Pnum / Pden exact
dejmps(f) ==
    LET r == dejmpsQ(f)
    IN  <<(FScale * r.F_new[1]) \div r.F_new[2], r.P[1], r.P[2]>>

\* variant: strict comparison
apply_filterStrict(f, threshold) == f > threshold

\* filtering.apply_filter()
apply_filter(f, threshold) == f >= threshold

\* The generator.  A state that is left open (fixed = FALSE) stands for
\* every state the generator can be in: a draw from it is any value of
\* [0, 1).  A fixed state x makes the next draw x / m.
Entropy == [fixed |-> FALSE, x |-> 0]
RngStates == [fixed : {TRUE}, x : 0 .. (Lcg.m - 1)]
NextRng(r) == IF r.fixed THEN [r EXCEPT !.x = (Lcg.a * r.x + Lcg.c) % Lcg.m] ELSE r

\* the values random.random() < num/den can take
RandomLess(r, num, den) ==
    IF r.fixed THEN {r.x * den < num * Lcg.m}
    ELSE {b \in BOOLEAN : IF b THEN num > 0 ELSE num < den}

\* the values random.random() > num/den can take
RandomGreater(r, num, den) ==
    IF r.fixed THEN {r.x * den > num * Lcg.m}
    ELSE {b \in BOOLEAN : IF b THEN num < den ELSE num >= 0}

\* random.random() > Psucc can be false (accept) / true (reject)
CanAccept(d) == FALSE \in RandomGreater(rng, d[2], d[3])
CanReject(d) == TRUE \in RandomGreater(rng, d[2], d[3])

\* left-to-right fold of swap over the fidelities of the path
RECURSIVE SwapFold(_, _, _)
SwapFold(acc, fs, i) ==
    IF i > Len(fs) THEN acc ELSE SwapFold(swap(acc, fs[i]), fs, i + 1)

\* the loop of the sequential swaps on fractions, from position i on
RECURSIVE SwapFoldQ(_, _, _)
SwapFoldQ(acc, fs, i) ==
    IF i > Len(fs) THEN acc ELSE SwapFoldQ(swapQ(acc, fs[i]), fs, i + 1)

\* variant: the loop starts one position late, the second hop is left out
EndToEndQSkip(fs) == SwapFoldQ(fs[1], fs, 3)

\* F_end = fidelities[0]; for F_next in fidelities[1:]: F_end = swap(F_end,
\* F_next)
EndToEndQ(fs) == SwapFoldQ(fs[1], fs, 2)

\* ------------------------------------------------- generation processes
\* One try_generate process on the event queue.  st: "init" (created by
\* env.process, not yet run), "waiting" (suspended in env.timeout),
\* "finished" (returned; its return value, which nobody reads, is dropped).
\* success is the outcome drawn before the wait; wake is the time its
\* timeout fires.
Proc(l) == [link |-> l, st |-> "init", success |-> FALSE, wake |-> 0]

\* link latency and round-trip time in ticks
Latency(l) == params.link_length

\* variant: the wait is the one-way latency
RoundTripOneWay(l) == Latency(l)

\* env.timeout(2 * latency)
RoundTrip(l) == 2 * Latency(l)

\* the draw random.random() < link.success_prob * DETECTION_EFFICIENCY
GenOutcomes(l) ==
    RandomLess(rng, success_prob * DETECTION_EFFICIENCY, FScale * FScale)

RECURSIVE Replicate(_, _)
Replicate(x, n) == IF n <= 0 THEN <<>> ELSE <<x>> \o Replicate(x, n - 1)

\* the main launch loop: `missing` attempts per path link, one side checked
RECURSIVE LaunchHops(_, _)
LaunchHops(m, i) ==
    IF i > Len(path) THEN <<>>
    ELSE LET l == path[i]
             missing == needed - Len(m[<<l[1], l[2]>>])
         IN  Replicate(Proc(l), missing) \o LaunchHops(m, i + 1)

\* the inner launch loop of swap_then_purify: one attempt per path link
LaunchExtra == [i \in 1 .. Len(path) |-> Proc(path[i])]

\* variant: the counter restarts with every batch
CountLaunchedReset(raw, gen) == Len(gen)

\* raw_pairs += 1 next to every env.process(try_generate(...))
CountLaunched(raw, gen) == raw + Len(gen)

\* variant: one flag per node, whoever the neighbour is
SetBusyPerNode(busy, l, b) ==
    [k \in DOMAIN busy |-> IF k[1] \in {l[1], l[2]} THEN b ELSE busy[k]]

\* set_comm_busy on both endpoints of link l
SetBusy(busy, l, b) ==
    [busy EXCEPT ![<<l[1], l[2]>>] = b, ![<<l[2], l[1]>>] = b]

\* variant: the interfaces are freed on the success path only
ReleaseAfterOnSuccess(busy, l, success) ==
    IF success THEN SetBusy(busy, l, FALSE) ELSE busy

\* try_generate after the timeout: free the interfaces of link l
ReleaseAfter(busy, l, success) == SetBusy(busy, l, FALSE)

\* variant: the registers are stored whatever the draw was
StoreAfterAlways(m, l, success, t) ==
    add_memory_qubit(add_memory_qubit(m, l[1], l[2], F0_LINK, t),
                     l[2], l[1], F0_LINK, t)

\* try_generate after the timeout: store one register per endpoint on success
StoreAfter(m, l, success, t) ==
    IF success
    THEN add_memory_qubit(add_memory_qubit(m, l[1], l[2], F0_LINK, t),
                          l[2], l[1], F0_LINK, t)
    ELSE m

Indices(s) == 1 .. Len(s)
InitIdx == {i \in Indices(procs) : procs[i].st = "init"}
WaitIdx == {i \in Indices(procs) : procs[i].st = "waiting"}
Min(S) == CHOOSE x \in S : \A y \in S : x <= y
Max(S) == CHOOSE x \in S : \A y \in S : x >= y

\* the event the simpy queue pops next: (time, creation order)
NextWake == Min({procs[i].wake : i \in WaitIdx})
NextResume == Min({i \in WaitIdx : procs[i].wake = NextWake})

\* variant: triggered by the first process that returns (AnyOf)
AllOfAsAnyOf(ps) == \E i \in Indices(ps) : ps[i].st = "finished"

\* AllOf(gen_processes): triggered once every process has returned
AllOf(ps) == \A i \in Indices(ps) : ps[i].st = "finished"

\* variant: a list of exactly k registers counts as short
AnyShortOrEqual(m, k) == \E i \in Indices(path) : Len(m[<<path[i][1], path[i][2]>>]) <= k

\* any(len(l.a.memory[l.b]) < k for l in path_links)
AnyShort(m, k) == \E i \in Indices(path) : Len(m[<<path[i][1], path[i][2]>>]) < k

\* variant: off by one
BudgetExceededEarly(t) == t >= max_trials

\* the trial budget check
BudgetExceeded(t) == t > max_trials

NoResult == [latency |-> -1, F_end |-> -1, raw_pairs |-> -1]

\* ----------------------------------------------------------------- Init
AllConfigs ==
    [topology : Topologies, nodes : 2 .. MaxNodes, link_length : LinkLengths,
     rounds : 0 .. MaxRounds, filter_threshold : Thresholds, strategy : Strategies]

Configs ==
    {c \in AllConfigs :
        Len(get_path(build(c.topology, c.nodes), c.topology)) * (c.rounds + 1)
            <= MaxBatch}

NoSummary == [runs |-> 0, latency_mean |-> -1, fidelity_mean |-> -1, raw_mean |-> -1]
NoCall == [op |-> "none", key |-> <<>>, n |-> 0, ret |-> <<>>]
NoEnd == [run_pc |-> "none", per |-> <<>>, summary |-> NoSummary, error |-> "none"]

NoSweep == [pc |-> "off", thr_init |-> -1, status |-> "none", thr |-> -1]

\* run(), "tune physics": the singleton's coherence time is overwritten if
\* the parameters name one
Tuned(b) ==
    IF "coherence_time" \in DOMAIN b THEN b.coherence_time ELSE DecayPerTick

\* The lists, the busy flags and the clock after a step of the trial are
\* added to the history where they differ from the last entry; the history
\* is kept only where two trials are compared.
Observe(tr, m, busy, t) ==
    LET snap == [memory |-> m, comm_busy |-> busy, now |-> t]
    IN  IF ~tr.on THEN tr
        ELSE IF tr.seq # <<>> /\ tr.seq[Len(tr.seq)] = snap THEN tr
        ELSE [tr EXCEPT !.seq = Append(@, snap)]

\* FibreLink.success_prob = exp(-length / attenuation length), rounded to
\* the grid of 1/FScale
LinkSuccessProb(len) ==
    (FScale * ATTENUATION_LENGTH_KM + (ATTENUATION_LENGTH_KM + len) \div 2)
        \div (ATTENUATION_LENGTH_KM + len)

\* np.random.seed(seed)
Seeded(seed) == [fixed |-> TRUE, x |-> seed % Lcg.m]

\* how the program is entered: through run() or through the command line
\* (which always collects), with how many runs, and with which seed
Seeds == {0}
RunCounts == {1, 2}
OneRun == [entry |-> "run", runs |-> 1, collect |-> TRUE, seed |-> 0]
Batches == [entry : {"run"}, runs : RunCounts, collect : BOOLEAN, seed : Seeds]
CliBatches == [entry : {"main"}, runs : RunCounts, collect : {TRUE}, seed : Seeds]

\* The state in which the first trial is about to run: run() has built the
\* topology on a new environment and created the generate_end_to_end
\* process.  C are the configurations, certain says whether the links
\* succeed with probability one, R are the generator states, B the batches.
Start(C, certain, R, B) ==
    /\ params \in C
    /\ batch \in B
    /\ rng \in R
    /\ success_prob = IF certain THEN FScale ELSE LinkSuccessProb(params.link_length)
    /\ np_rng = IF batch.entry = "main" THEN Seeded(batch.seed) ELSE Entropy
    /\ first = [rng0 |-> rng, rng1 |-> rng, end |-> NoEnd]
    /\ attempts = 0
    /\ gen_failed = FALSE
    /\ per = <<>>
    /\ summary = NoSummary
    /\ emitted = "none"
    /\ run_pc = "trial"
    /\ invocation = 1
    /\ call = NoCall
    /\ sweep = IF batch.entry = "sweep"
               THEN [pc |-> "running", thr_init |-> params.filter_threshold,
                     status |-> "none", thr |-> -1]
               ELSE NoSweep
    /\ physics = Tuned(batch)
    /\ trace = [on |-> batch.entry = "both", seq |-> <<>>]
    /\ now = 0
    /\ memory = [k \in LinkKeys(build(params.topology, params.nodes)) |-> <<>>]
    /\ comm_busy = [k \in LinkKeys(build(params.topology, params.nodes)) |-> FALSE]
    /\ procs = <<>>
    /\ pc = "start"
    /\ trials = 0
    /\ raw_pairs = 0
    /\ cur = <<1, 0>>
    /\ end_pairs = <<>>
    /\ F_end = 0
    /\ survivor_F = 0
    /\ result = NoResult
    /\ error = "none"
    /\ retries = 0
    /\ last = "Init"

\* one trial, entered through run()
Init == Start(Configs, FALSE, {Entropy}, {OneRun})

\* -------------------------------------------------------------- actions
\* top of the outer loop: count the trial, check the budget, launch the batch
\* what the RuntimeError of an exhausted budget is built from, as the parts
\* of its message: the literal text first, then every value formatted into
\* it (t the trial counter, p the path at the raise)
ExceededArgs(t, p) == <<"Exceeded max trials">>

IterStart ==
    /\ pc = "start"
    /\ trials' = trials + 1
    /\ IF BudgetExceeded(trials + 1)
       THEN /\ pc' = "raised"
            /\ error' = Head(ExceededArgs(trials + 1, path))
            /\ last' = "Budget"
            /\ UNCHANGED <<procs, raw_pairs>>
       ELSE LET gen_processes == LaunchHops(memory, 1)
            IN  /\ procs' = gen_processes
                /\ raw_pairs' = CountLaunched(raw_pairs, gen_processes)
                /\ pc' = IF gen_processes # <<>> THEN "join_hops" ELSE "verify"
                /\ last' = "IterStart"
                /\ UNCHANGED error
    /\ retries' = 0
    /\ UNCHANGED <<params, now, memory, comm_busy, cur, end_pairs, F_end, survivor_F, result>>
    /\ UNCHANGED draws
    /\ UNCHANGED outer
    /\ trace' = Observe(trace, memory', comm_busy', now')

\* a created process runs up to its timeout: busy flags, the draw, the wait
ProcStart ==
    /\ InitIdx # {}
    /\ LET i == Min(InitIdx)
           l == procs[i].link
       IN  \E s \in GenOutcomes(l) :
             /\ comm_busy' = SetBusy(comm_busy, l, TRUE)
             /\ procs' = [procs EXCEPT ![i] = [@ EXCEPT !.st = "waiting",
                                                        !.success = s,
                                                        !.wake = now + RoundTrip(l)]]
             /\ gen_failed' = (gen_failed \/ ~s)
    /\ rng' = NextRng(rng)
    /\ attempts' = attempts + 1
    /\ last' = "ProcStart"
    /\ UNCHANGED <<params, now, memory, pc, trials, raw_pairs, cur, end_pairs,
                   F_end, survivor_F, result, error, retries>>
    /\ UNCHANGED outer
    /\ trace' = Observe(trace, memory', comm_busy', now')

\* the earliest timeout fires: the clock moves there, the process finishes
ProcResume ==
    /\ InitIdx = {}
    /\ WaitIdx # {}
    /\ LET i == NextResume
           l == procs[i].link
           t == procs[i].wake
       IN  /\ now' = t
           /\ comm_busy' = ReleaseAfter(comm_busy, l, procs[i].success)
           /\ memory' = StoreAfter(memory, l, procs[i].success, t)
           /\ procs' = [procs EXCEPT ![i] = [@ EXCEPT !.st = "finished",
                                                      !.success = FALSE]]
    /\ last' = "ProcResume"
    /\ UNCHANGED <<params, pc, trials, raw_pairs, cur, end_pairs, F_end,
                   survivor_F, result, error, retries>>
    /\ UNCHANGED draws
    /\ UNCHANGED outer
    /\ trace' = Observe(trace, memory', comm_busy', now')

\* yield AllOf(...) of the main batch returns
JoinHops ==
    /\ pc = "join_hops"
    /\ AllOf(procs)
    /\ procs' = <<>>
    /\ pc' = "verify"
    /\ last' = "JoinHops"
    /\ UNCHANGED <<params, now, memory, comm_busy, trials, raw_pairs, cur,
                   end_pairs, F_end, survivor_F, result, error, retries>>
    /\ UNCHANGED draws
    /\ UNCHANGED outer
    /\ trace' = Observe(trace, memory', comm_busy', now')

\* the supply check, then the branch on the strategy
Verify ==
    /\ pc = "verify"
    /\ IF AnyShort(memory, needed)
       THEN /\ pc' = "start"
            /\ last' = "VerifyShort"
       ELSE /\ pc' = IF params.strategy = "purify_then_swap" /\ rounds > 0
                     THEN "purify" ELSE "swap"
            /\ last' = "VerifyOk"
    /\ cur' = <<1, 0>>
    /\ UNCHANGED <<params, now, memory, comm_busy, procs, trials, raw_pairs,
                   end_pairs, F_end, survivor_F, result, error, retries>>
    /\ UNCHANGED draws
    /\ UNCHANGED outer
    /\ trace' = Observe(trace, memory', comm_busy', now')

\* one round of _purify_link on link cur[1] (purify_then_swap)
PurifyRound ==
    /\ pc = "purify"
    /\ LET l  == path[cur[1]]
           ka == <<l[1], l[2]>>
           kb == <<l[2], l[1]>>
       IN  IF Len(memory[ka]) < 2 \/ Len(memory[kb]) < 2
           THEN /\ pc' = "start"
                /\ last' = "PurifyShort"
                /\ cur' = <<1, 0>>
                /\ UNCHANGED <<memory, rng>>
           ELSE LET qa     == memory[ka][1]
                    qaux_a == memory[ka][2]
                    qb     == memory[kb][1]
                    popped == pop_memory_qubits(
                                  pop_memory_qubits(memory, l[1], l[2], 2),
                                  l[2], l[1], 2)
                    F_avg  == (fidelity(qa, now) + fidelity(qaux_a, now)) \div 2
                    d      == dejmps(F_avg)
                    rs     == ResetPair(qa, qb, d[1], now)
                    sa     == [rs[1] EXCEPT !.pur = @ + 1]
                    sb     == [rs[2] EXCEPT !.pur = @ + 1]
                    rd     == cur[2] + 1
                IN  /\ rng' = NextRng(rng)
                    /\ \/ /\ CanReject(d)
                          /\ memory' = popped
                          /\ pc' = "start"
                          /\ last' = "PurifyReject"
                          /\ cur' = <<1, 0>>
                       \/ /\ CanAccept(d)
                          /\ memory' = InsertHead(InsertHead(popped, l[1], l[2], sa),
                                                   l[2], l[1], sb)
                          /\ last' = "PurifyAccept"
                          /\ IF rd < rounds
                             THEN /\ cur' = <<cur[1], rd>>
                                  /\ pc' = "purify"
                             ELSE IF cur[1] < Len(path)
                                  THEN /\ cur' = <<cur[1] + 1, 0>>
                                       /\ pc' = "purify"
                                  ELSE /\ cur' = <<1, 0>>
                                       /\ pc' = "swap"
    /\ UNCHANGED <<params, now, comm_busy, procs, trials, raw_pairs, end_pairs,
                   F_end, survivor_F, result, error, retries>>
    /\ UNCHANGED <<attempts, gen_failed>>
    /\ UNCHANGED outer
    /\ trace' = Observe(trace, memory', comm_busy', now')

\* [peek_memory_fidelity(link.b) for link in path_links] can be evaluated
CanPeekAll(m) == \A i \in Indices(path) : Len(m[<<path[i][1], path[i][2]>>]) >= 1

\* the swapped fidelity of the oldest register of every path link
SwapPath(m, t) ==
    LET fidelities == [i \in Indices(path) |->
                          peek_memory_fidelity(m, path[i][1], path[i][2], t)]
    IN  SwapFold(fidelities[1], fidelities, 2)

\* "remove first pair memories": pop one register at link.a, then at link.b,
\* link after link; stops at the first pop that raises
RECURSIVE PopPath(_, _)
PopPath(m, i) ==
    IF i > Len(path) THEN [mem |-> m, ok |-> TRUE]
    ELSE LET a == path[i][1]
             b == path[i][2]
         IN  IF ~CanPop(m, a, b, 1) THEN [mem |-> m, ok |-> FALSE]
             ELSE LET m1 == pop_memory_qubits(m, a, b, 1)
                  IN  IF ~CanPop(m1, b, a, 1) THEN [mem |-> m1, ok |-> FALSE]
                      ELSE PopPath(pop_memory_qubits(m1, b, a, 1), i + 1)

\* sequential swaps and removal of the swapped registers
Swap ==
    /\ pc = "swap"
    /\ IF ~CanPeekAll(memory)
       THEN /\ pc' = "raised"
            /\ error' = "has no memory with"
            /\ last' = "SwapRaise"
            /\ UNCHANGED <<memory, F_end, end_pairs>>
       ELSE LET f == SwapPath(memory, now)
                r == PopPath(memory, 1)
            IN  /\ memory' = r.mem
                /\ F_end' = f
                /\ IF ~r.ok
                   THEN /\ pc' = "raised"
                        /\ error' = "has only"
                        /\ last' = "SwapRaise"
                        /\ UNCHANGED end_pairs
                   ELSE /\ UNCHANGED error
                        /\ last' = "Swap"
                        /\ IF params.strategy = "swap_then_purify"
                           THEN /\ end_pairs' = <<f>>
                                /\ pc' = "collect"
                           ELSE /\ UNCHANGED end_pairs
                                /\ pc' = "filter"
    /\ UNCHANGED <<params, now, comm_busy, procs, trials, raw_pairs, cur,
                   survivor_F, result, retries>>
    /\ UNCHANGED draws
    /\ UNCHANGED outer
    /\ trace' = Observe(trace, memory', comm_busy', now')

\* variant: the loop goes on until there is one candidate too many
MoreCandidatesInclusive(ep) == Len(ep) <= rounds + 1

\* while len(end_pairs) < rounds + 1
MoreCandidates(ep) == Len(ep) < rounds + 1

\* head of the inner while loop of swap_then_purify
Collect ==
    /\ pc = "collect"
    /\ IF MoreCandidates(end_pairs)
       THEN /\ procs' = LaunchExtra
            /\ raw_pairs' = CountLaunched(raw_pairs, LaunchExtra)
            /\ pc' = "join_extra"
            /\ last' = "CollectLaunch"
            /\ UNCHANGED <<cur, survivor_F>>
       ELSE /\ survivor_F' = end_pairs[1]
            /\ cur' = <<2, 0>>
            /\ pc' = "end_purify"
            /\ last' = "CollectDone"
            /\ UNCHANGED <<procs, raw_pairs>>
    /\ UNCHANGED <<params, now, memory, comm_busy, trials, end_pairs, F_end,
                   result, error, retries>>
    /\ UNCHANGED draws
    /\ UNCHANGED outer
    /\ trace' = Observe(trace, memory', comm_busy', now')

\* yield AllOf(...) of an inner batch returns: retry, or swap one more candidate
JoinExtra ==
    /\ pc = "join_extra"
    /\ AllOf(procs)
    /\ procs' = <<>>
    /\ IF AnyShort(memory, 1)
       THEN /\ retries < MaxRetries
            /\ retries' = retries + 1
            /\ pc' = "collect"
            /\ last' = "JoinExtraRetry"
            /\ UNCHANGED <<memory, end_pairs, error>>
       ELSE LET f == SwapPath(memory, now)
                r == PopPath(memory, 1)
            IN  /\ memory' = r.mem
                /\ UNCHANGED retries
                /\ IF ~r.ok
                   THEN /\ pc' = "raised"
                        /\ error' = "has only"
                        /\ last' = "JoinExtraRaise"
                        /\ UNCHANGED end_pairs
                   ELSE /\ end_pairs' = Append(end_pairs, f)
                        /\ pc' = "collect"
                        /\ last' = "JoinExtra"
                        /\ UNCHANGED error
    /\ UNCHANGED <<params, now, comm_busy, trials, raw_pairs, cur, F_end,
                   survivor_F, result>>
    /\ UNCHANGED draws
    /\ UNCHANGED outer
    /\ trace' = Observe(trace, memory', comm_busy', now')

\* one round of the purification over end_pairs, or its end
EndPurify ==
    /\ pc = "end_purify"
    /\ IF cur[1] > Len(end_pairs)
       THEN /\ F_end' = survivor_F
            /\ pc' = "filter"
            /\ last' = "EndPurifyDone"
            /\ UNCHANGED <<survivor_F, cur, rng>>
       ELSE LET F_avg == (survivor_F + end_pairs[cur[1]]) \div 2
                d     == dejmps(F_avg)
            IN  /\ UNCHANGED F_end
                /\ rng' = NextRng(rng)
                /\ \/ /\ CanReject(d)
                      /\ pc' = "start"
                      /\ last' = "EndPurifyReject"
                      /\ UNCHANGED <<survivor_F, cur>>
                   \/ /\ CanAccept(d)
                      /\ survivor_F' = d[1]
                      /\ cur' = <<cur[1] + 1, 0>>
                      /\ pc' = "end_purify"
                      /\ last' = "EndPurifyAccept"
    /\ UNCHANGED <<params, now, memory, comm_busy, procs, trials, raw_pairs,
                   end_pairs, result, error, retries>>
    /\ UNCHANGED <<attempts, gen_failed>>
    /\ UNCHANGED outer
    /\ trace' = Observe(trace, memory', comm_busy', now')

\* the filter, then the return
Filter ==
    /\ pc = "filter"
    /\ IF apply_filter(F_end, params.filter_threshold)
       THEN /\ result' = [latency |-> now, F_end |-> F_end, raw_pairs |-> raw_pairs]
            /\ pc' = "returned"
            /\ last' = "FilterAccept"
       ELSE /\ pc' = "start"
            /\ last' = "FilterReject"
            /\ UNCHANGED result
    /\ UNCHANGED <<params, now, memory, comm_busy, procs, trials, raw_pairs,
                   cur, end_pairs, F_end, survivor_F, error, retries>>
    /\ UNCHANGED draws
    /\ UNCHANGED outer
    /\ trace' = Observe(trace, memory', comm_busy', now')

\* ------------------------------------------------------------ run()
\* statistics.mean over the rows of per, on the integer grid
RECURSIVE SumOf(_, _)
SumOf(rows, field) ==
    IF rows = <<>> THEN 0 ELSE rows[1][field] + SumOf(Tail(rows), field)

Mean(rows, field) == SumOf(rows, field) \div Len(rows)

\* the summary; the two rate means are functions of the same rows (1/latency
\* and raw_pairs/latency) and are left out, as are the echoed parameters
Summarise(rows) ==
    [runs          |-> batch.runs,
     latency_mean  |-> Mean(rows, "latency"),
     fidelity_mean |-> Mean(rows, "F_end"),
     raw_mean      |-> Mean(rows, "raw_pairs")]

\* variant: the next trial runs on the nodes of the previous one
ReusedMemory(m) == m

\* topology.build on a new environment: every Node starts with empty lists
FreshMemory(m) == [k \in DOMAIN m |-> <<>>]

\* env.run() returned: the row is appended, then either the next trial is
\* set up on a new environment or the summary is computed and emitted
RunCollect ==
    /\ run_pc = "trial"
    /\ pc = "returned"
    /\ per' = Append(per, result)
    /\ IF Len(per) + 1 < batch.runs
       THEN /\ now' = 0
            /\ memory' = FreshMemory(memory)
            /\ comm_busy' = [k \in DOMAIN comm_busy |-> FALSE]
            /\ procs' = <<>>
            /\ pc' = "start"
            /\ trials' = 0
            /\ raw_pairs' = 0
            /\ cur' = <<1, 0>>
            /\ end_pairs' = <<>>
            /\ F_end' = 0
            /\ survivor_F' = 0
            /\ result' = NoResult
            /\ retries' = 0
            /\ attempts' = 0
            /\ gen_failed' = FALSE
            /\ last' = "RunNext"
            /\ UNCHANGED <<summary, emitted, run_pc>>
       ELSE /\ summary' = Summarise(per')
            /\ emitted' = IF batch.collect THEN "returned" ELSE "printed"
            /\ run_pc' = "done"
            /\ last' = "RunSummary"
            /\ UNCHANGED <<now, memory, comm_busy, procs, pc, trials, raw_pairs,
                           cur, end_pairs, F_end, survivor_F, result, retries,
                           attempts, gen_failed>>
    /\ UNCHANGED <<params, error, success_prob, rng, batch, np_rng, invocation,
                   first, call, sweep, physics, trace>>

\* variant: a failed trial is skipped and the batch is reported anyway
RunRaiseSkipped ==
    /\ run_pc = "trial"
    /\ pc = "raised"
    /\ run_pc' = "done"
    /\ summary' = [NoSummary EXCEPT !.runs = batch.runs]
    /\ emitted' = IF batch.collect THEN "returned" ELSE "printed"
    /\ last' = "RunRaise"
    /\ UNCHANGED <<params, now, memory, comm_busy, procs, pc, trials, raw_pairs,
                   cur, end_pairs, F_end, survivor_F, result, error, retries,
                   success_prob, rng, attempts, gen_failed, batch, per,
                   np_rng, invocation, first, call,
                   sweep, physics, trace>>

\* env.run() raised: nothing catches it, run() is left through the exception
RunRaise ==
    /\ run_pc = "trial"
    /\ pc = "raised"
    /\ run_pc' = "propagated"
    /\ last' = "RunRaise"
    /\ UNCHANGED <<params, now, memory, comm_busy, procs, pc, trials, raw_pairs,
                   cur, end_pairs, F_end, survivor_F, result, error, retries,
                   success_prob, rng, attempts, gen_failed, batch, per, summary,
                   emitted, np_rng, invocation, first, call,
                   sweep, physics, trace>>

\* ------------------------------------------------- the command line
\* The program is started a second time with the same arguments: a new
\* interpreter, whose random module starts in a state of its own; main()
\* seeds NumPy's generator and calls run().
Reinvoke ==
    /\ batch.entry = "main"
    /\ invocation = 1
    /\ run_pc \in {"done", "propagated"}
    /\ invocation' = 2
    /\ np_rng' = Seeded(batch.seed)
    /\ \E r \in RngStates :
          /\ rng' = r
          /\ first' = [rng0 |-> first.rng0, rng1 |-> r,
                       end |-> [run_pc |-> run_pc, per |-> per,
                                summary |-> summary, error |-> error]]
    /\ per' = <<>>
    /\ summary' = NoSummary
    /\ emitted' = "none"
    /\ run_pc' = "trial"
    /\ now' = 0
    /\ memory' = FreshMemory(memory)
    /\ comm_busy' = [k \in DOMAIN comm_busy |-> FALSE]
    /\ procs' = <<>>
    /\ pc' = "start"
    /\ trials' = 0
    /\ raw_pairs' = 0
    /\ cur' = <<1, 0>>
    /\ end_pairs' = <<>>
    /\ F_end' = 0
    /\ survivor_F' = 0
    /\ result' = NoResult
    /\ error' = "none"
    /\ retries' = 0
    /\ attempts' = 0
    /\ gen_failed' = FALSE
    /\ last' = "Reinvoke"
    /\ UNCHANGED <<params, success_prob, batch, call, sweep, physics, trace>>

\* ------------------------------------------------- the two strategies
OtherOf(strategy) ==
    IF strategy = "purify_then_swap" THEN "swap_then_purify" ELSE "purify_then_swap"

\* generate_end_to_end is run once more on a new environment and a new
\* graph of the same shape, with the other strategy, the generator of the
\* random module put back into the state it had before the first trial
OtherStrategy ==
    /\ batch.entry = "both"
    /\ invocation = 1
    /\ pc \in {"returned", "raised"}
    /\ invocation' = 2
    /\ params' = [params EXCEPT !.strategy = OtherOf(@)]
    /\ rng' = first.rng0
    /\ first' = [first EXCEPT !.end = [pc |-> pc, result |-> result,
                                       error |-> error, trace |-> trace.seq,
                                       attempts |-> attempts, rng |-> rng]]
    /\ trace' = [trace EXCEPT !.seq = <<>>]
    /\ now' = 0
    /\ memory' = FreshMemory(memory)
    /\ comm_busy' = [k \in DOMAIN comm_busy |-> FALSE]
    /\ procs' = <<>>
    /\ pc' = "start"
    /\ trials' = 0
    /\ raw_pairs' = 0
    /\ cur' = <<1, 0>>
    /\ end_pairs' = <<>>
    /\ F_end' = 0
    /\ survivor_F' = 0
    /\ result' = NoResult
    /\ error' = "none"
    /\ retries' = 0
    /\ attempts' = 0
    /\ gen_failed' = FALSE
    /\ last' = "OtherStrategy"
    /\ UNCHANGED <<success_prob, batch, per, summary, emitted, run_pc, np_rng,
                   call, sweep, physics>>

\* ------------------------------------------------- calls on one Node
\* fidelities handed to add_memory_qubit
AddFidelities == {F0_LINK, swap(F0_LINK, F0_LINK)}

\* the list pop_memory_qubits returns
PoppedQubits(m, x, y, n) == SubSeq(m[<<x, y>>], 1, n)

\* a.add_memory_qubit(b, f)
NodeAdd ==
    /\ \E k \in DOMAIN memory : \E f \in AddFidelities :
          /\ Len(memory[k]) < needed
          /\ memory' = add_memory_qubit(memory, k[1], k[2], f, now)
          /\ call' = [op |-> "add", key |-> k, n |-> 0, ret |-> <<>>]
    /\ error' = "none"
    /\ last' = "NodeAdd"
    /\ UNCHANGED <<params, now, comm_busy, procs, pc, trials, raw_pairs, cur,
                   end_pairs, F_end, survivor_F, result, retries, success_prob,
                   rng, attempts, gen_failed, batch, per, summary, emitted,
                   run_pc, np_rng, invocation, first, sweep,
                   physics, trace>>

\* a.pop_memory_qubits(b, n): raises, or removes and returns
NodePop ==
    /\ \E k \in DOMAIN memory : \E n \in 0 .. (needed + 1) :
          IF ~CanPop(memory, k[1], k[2], n)
          THEN /\ error' = "has only"
               /\ call' = [op |-> "pop", key |-> k, n |-> n, ret |-> <<>>]
               /\ UNCHANGED memory
          ELSE /\ error' = "none"
               /\ call' = [op |-> "pop", key |-> k, n |-> n,
                           ret |-> PoppedQubits(memory, k[1], k[2], n)]
               /\ memory' = pop_memory_qubits(memory, k[1], k[2], n)
    /\ last' = "NodePop"
    /\ UNCHANGED <<params, now, comm_busy, procs, pc, trials, raw_pairs, cur,
                   end_pairs, F_end, survivor_F, result, retries, success_prob,
                   rng, attempts, gen_failed, batch, per, summary, emitted,
                   run_pc, np_rng, invocation, first, sweep,
                   physics, trace>>

\* ------------------------------------------------- the pure functions
\* Each behaviour makes one call.
\* fidelities the pure functions are called with
FidelityGrid == {f \in 0 .. FScale : f % 5 = 0}

\* the orderings of three hops
Orderings == {o \in [1 .. 3 -> 1 .. 3] : \A i, j \in 1 .. 3 : o[i] = o[j] => i = j}

\* swap(F1, F2)
SwapCall ==
    /\ call = NoCall
    /\ \E f1 \in FidelityGrid : \E f2 \in FidelityGrid :
          call' = [op |-> "swap", key |-> <<f1, f2>>, n |-> 0,
                   ret |-> swapQ(Q(f1), Q(f2))]
    /\ last' = "SwapCall"
    /\ UNCHANGED <<params, now, memory, comm_busy, procs, pc, trials, raw_pairs,
                   cur, end_pairs, F_end, survivor_F, result, error, retries,
                   success_prob, rng, attempts, gen_failed, batch, per, summary,
                   emitted, run_pc, np_rng, invocation, first, sweep,
                   physics, trace>>

\* the orchestrator's fold over the fidelities of three hops, for every
\* order in which the hops can stand on the path
FoldCall ==
    /\ call = NoCall
    /\ \E f1 \in FidelityGrid : \E f2 \in FidelityGrid : \E f3 \in FidelityGrid :
          LET fs == <<Q(f1), Q(f2), Q(f3)>>
          IN  call' = [op |-> "fold", key |-> <<f1, f2, f3>>, n |-> 3,
                       ret |-> [o \in Orderings |->
                                   EndToEndQ([i \in 1 .. 3 |-> fs[o[i]]])]]
    /\ last' = "FoldCall"
    /\ UNCHANGED <<params, now, memory, comm_busy, procs, pc, trials, raw_pairs,
                   cur, end_pairs, F_end, survivor_F, result, error, retries,
                   success_prob, rng, attempts, gen_failed, batch, per, summary,
                   emitted, run_pc, np_rng, invocation, first, sweep,
                   physics, trace>>

\* dejmps(F)
DejmpsCall ==
    /\ call = NoCall
    /\ \E f \in 1 .. FScale :
          call' = [op |-> "dejmps", key |-> <<f>>, n |-> 0, ret |-> dejmpsQ(f)]
    /\ last' = "DejmpsCall"
    /\ UNCHANGED <<params, now, memory, comm_busy, procs, pc, trials, raw_pairs,
                   cur, end_pairs, F_end, survivor_F, result, error, retries,
                   success_prob, rng, attempts, gen_failed, batch, per, summary,
                   emitted, run_pc, np_rng, invocation, first, sweep,
                   physics, trace>>

\* ------------------------------------------------- the sweep
\* STRAT_FILTERS: thresholds a sweep starts from
SweepThresholds == {F0_LINK, 60}

\* the loop of _adaptive_run goes on while the threshold is at least this
SweepFloor == 50

\* thr = round(thr - 0.2, 2)
Relaxed(thr) == thr - 20

\* variant: every error leads to another attempt
RetryableAny(e) == e # "none"

\* "Exceeded max trials" in summary.get("error", "")
Retryable(e) == e = "Exceeded max trials"

\* _run_once() came back with status "error" and the text of a budget
\* error, and the relaxed threshold is still in range: run() is called again
\* with it
SweepRelax ==
    /\ sweep.pc = "running"
    /\ run_pc = "propagated"
    /\ Retryable(error)
    /\ Relaxed(params.filter_threshold) >= SweepFloor
    /\ params' = [params EXCEPT !.filter_threshold = Relaxed(@)]
    /\ physics' = Tuned(batch)
    /\ per' = <<>>
    /\ summary' = NoSummary
    /\ emitted' = "none"
    /\ run_pc' = "trial"
    /\ now' = 0
    /\ memory' = FreshMemory(memory)
    /\ comm_busy' = [k \in DOMAIN comm_busy |-> FALSE]
    /\ procs' = <<>>
    /\ pc' = "start"
    /\ trials' = 0
    /\ raw_pairs' = 0
    /\ cur' = <<1, 0>>
    /\ end_pairs' = <<>>
    /\ F_end' = 0
    /\ survivor_F' = 0
    /\ result' = NoResult
    /\ error' = "none"
    /\ retries' = 0
    /\ attempts' = 0
    /\ gen_failed' = FALSE
    /\ last' = "SweepRelax"
    /\ UNCHANGED <<success_prob, rng, batch, np_rng, invocation, first, call,
                   sweep, trace>>

\* _adaptive_run() returns: the summary of a run that went through, the
\* error of a run that failed otherwise than by its budget, or, the
\* threshold relaxed out of range, the last error with thr_init
SweepReturn ==
    /\ sweep.pc = "running"
    /\ \/ /\ run_pc = "done"
          /\ sweep' = [sweep EXCEPT !.pc = "returned", !.status = "ok",
                                    !.thr = params.filter_threshold]
       \/ /\ run_pc = "propagated"
          /\ ~Retryable(error)
          /\ sweep' = [sweep EXCEPT !.pc = "returned", !.status = "error",
                                    !.thr = params.filter_threshold]
       \/ /\ run_pc = "propagated"
          /\ Retryable(error)
          /\ Relaxed(params.filter_threshold) < SweepFloor
          /\ sweep' = [sweep EXCEPT !.pc = "returned", !.status = "error",
                                    !.thr = sweep.thr_init]
    /\ last' = "SweepReturn"
    /\ UNCHANGED <<params, now, memory, comm_busy, procs, pc, trials, raw_pairs,
                   cur, end_pairs, F_end, survivor_F, result, error, retries,
                   success_prob, rng, attempts, gen_failed, batch, per, summary,
                   emitted, run_pc, np_rng, invocation, first, call,
                   physics, trace>>

\* --------------------------------------------------- specifications
Next ==
    \/ IterStart
    \/ ProcStart
    \/ ProcResume
    \/ JoinHops
    \/ Verify
    \/ PurifyRound
    \/ Swap
    \/ Collect
    \/ JoinExtra
    \/ EndPurify
    \/ Filter

Spec == Init /\ [][Next]_vars

\* one trial on a short linear path, driven by env.run() to its end: as
\* long as an event is on the queue the next one is processed, so a step
\* that can be taken is eventually taken
FairConfigs ==
    [topology : {"linear"}, nodes : {2, 3}, link_length : LinkLengths,
     rounds : {0, 1, 2}, filter_threshold : {0}, strategy : Strategies]
FairInit == Start(FairConfigs, FALSE, {Entropy}, {OneRun})
FairSpec == FairInit /\ [][Next]_vars /\ WF_vars(Next)

\* run() with one or more trials; a path of one link keeps the batch small
RunConfigs ==
    {c \in Configs : c.topology = "linear" /\ c.nodes = 2 /\ c.filter_threshold = 0}
RunInit == Start(RunConfigs, FALSE, {Entropy}, Batches)
RunNext == Next \/ RunCollect \/ RunRaise
RunSpec == RunInit /\ [][RunNext]_vars

\* the command line, twice with the same arguments, the generator of the
\* random module in a definite state each time
SeedInit == Start(Configs, FALSE, RngStates, CliBatches)
SeedNext == RunNext \/ Reinvoke
SeedSpec == SeedInit /\ [][SeedNext]_vars

\* one Node of a two-node graph, called directly
NodeConfigs == {c \in RunConfigs : c.strategy = "purify_then_swap"}
NodeInit == Start(NodeConfigs, FALSE, {Entropy}, {OneRun})
NodeNext == NodeAdd \/ NodePop
NodeSpec == NodeInit /\ [][NodeNext]_vars

\* run() with a coherence time among its parameters: the default, none
\* at all (no decay), a short one; as the factor per tick
NoDecay == <<1, 1>>
CoherenceTimes == {DecayPerTick, NoDecay, <<1, 2>>}
TunedBatches ==
    [entry : {"run"}, runs : {1}, collect : {TRUE}, seed : Seeds,
     coherence_time : CoherenceTimes]
TunedInit == Start(RunConfigs, FALSE, {Entropy}, TunedBatches)
TunedSpec == TunedInit /\ [][RunNext]_vars

\* a linear path of three hops, links that always deliver a photon, no
\* filter, no decay configured, without purification or with one round
ThreeHopConfigs ==
    [topology : {"linear"}, nodes : {4}, link_length : LinkLengths,
     rounds : {0, 1}, filter_threshold : {0}, strategy : Strategies]
NoDecayBatches ==
    [entry : {"run"}, runs : {1}, collect : {TRUE}, seed : Seeds,
     coherence_time : {NoDecay}]
ThreeHopInit == Start(ThreeHopConfigs, TRUE, {Entropy}, NoDecayBatches)
ThreeHopSpec == ThreeHopInit /\ [][RunNext]_vars

\* one trial with either strategy, then one with the other on the same
\* draws: the generator in a definite state, without purification or with
\* one round
BothConfigs == {c \in Configs : c.rounds <= 1}
BothBatches == [entry : {"both"}, runs : {1}, collect : {TRUE}, seed : Seeds]
BothInit == Start(BothConfigs, FALSE, RngStates, BothBatches)
BothNext == Next \/ OtherStrategy
BothSpec == BothInit /\ [][BothNext]_vars

\* the pure functions, called directly
PureInit == Start(NodeConfigs, FALSE, {Entropy}, {OneRun})
PureNext == SwapCall \/ FoldCall \/ DejmpsCall
PureSpec == PureInit /\ [][PureNext]_vars

\* _adaptive_run() on a graph of two nodes
SweepConfigs ==
    [topology : {"linear", "star"}, nodes : {2}, link_length : LinkLengths,
     rounds : {0, 1}, filter_threshold : SweepThresholds,
     strategy : Strategies]
SweepBatches == [entry : {"sweep"}, runs : {1}, collect : {TRUE}, seed : Seeds]
SweepInit == Start(SweepConfigs, FALSE, {Entropy}, SweepBatches)
SweepNext == RunNext \/ SweepRelax \/ SweepReturn
SweepSpec == SweepInit /\ [][SweepNext]_vars

TypeOK ==
    /\ params \in Configs
    /\ pc \in {"start", "join_hops", "verify", "purify", "swap", "collect",
               "join_extra", "end_purify", "filter", "returned", "raised"}
    /\ trials \in 0 .. (max_trials + 1)
    /\ raw_pairs \in Nat
    /\ now \in Nat

\* ------------------------------------------------------------ properties
JoinStates == {"join_hops", "join_extra"}
BudgetError == "Exceeded max trials"
ResourceErrors == {"has only", "has no memory with"}
PathKeysOf(i) == {<<path[i][1], path[i][2]>>, <<path[i][2], path[i][1]>>}
AllFinished == \A i \in Indices(procs) : procs[i].st = "finished"
NoneBusy == \A k \in DOMAIN comm_busy : ~comm_busy[k]

\* C1: a run ends by returning a result or by raising the trial budget
\* error, and in no other way.
C1_ReturnsOrBudgetError ==
    pc = "raised" => error = BudgetError

\* C2: trials grows by exactly one at the top of every outer iteration and
\* nowhere else; the budget error is raised exactly when trials first
\* exceeds max_trials; only iterations 1..max_trials launch attempts.
C2_TrialCounter ==
    /\ [](trials <= max_trials + 1)
    /\ []((error = BudgetError) <=> (trials = max_trials + 1))
    /\ []((procs # <<>>) => (trials \in 1 .. max_trials))
    /\ [][IF pc = "start" THEN trials' = trials + 1 ELSE trials' = trials]_vars

C2_Witness ==
    /\ pc = "raised"
    /\ error = BudgetError
    /\ trials = max_trials + 1
    /\ last = "Budget"

\* C3: at most one generation attempt is in flight (waiting out its
\* latency) on any link at any moment.
C3_OneAttemptPerLink ==
    \A i \in WaitIdx : \A j \in WaitIdx :
        (procs[i].link = procs[j].link) => (i = j)

\* C4: an attempt that finishes, successful or not, leaves both interfaces
\* of its link free at the moment its latency has elapsed; no interface is
\* busy whenever the orchestrator runs, has returned or has raised.
C4_BusyReleased ==
    /\ []((pc \notin JoinStates \/ AllFinished) => NoneBusy)
    /\ [][\A i \in Indices(procs) :
            (i \in Indices(procs') /\ procs[i].st = "waiting"
                 /\ procs'[i].st = "finished")
            => /\ now' = procs[i].wake
               /\ \A k \in {<<procs[i].link[1], procs[i].link[2]>>,
                            <<procs[i].link[2], procs[i].link[1]>>} :
                     ~comm_busy'[k]]_vars

C4_Witness ==
    /\ pc = "join_hops"
    /\ AllFinished
    /\ procs # <<>>
    /\ AnyShort(memory, needed)
    /\ NoneBusy
    /\ last = "ProcResume"

\* C5: while a batch is pending the orchestrator does nothing; it moves on
\* only when every attempt of the batch has finished, and then the clock
\* equals the latest completion time of the batch.
C5_JoinIsBarrier ==
    [][(pc \in JoinStates /\ procs # <<>>) =>
          \/ /\ pc' = pc
             /\ UNCHANGED <<trials, raw_pairs, end_pairs, F_end, survivor_F,
                            result, error, cur>>
             /\ Len(procs') = Len(procs)
          \/ /\ AllFinished
             /\ now = Max({procs[i].wake : i \in Indices(procs)})
             /\ now' = now]_vars

C5_Witness ==
    /\ last = "JoinHops"
    /\ AnyShort(memory, needed)
    /\ now > 0

\* C6: every memory list is empty whenever an outer iteration starts.
C6_FreshStart ==
    pc = "start" => \A k \in DOMAIN memory : memory[k] = <<>>

\* C7: the orchestrator never raises the resource-exhaustion error.
C7_NoResourceExhaustion ==
    error \notin ResourceErrors

\* C8: a result is returned only with a final fidelity at or above the
\* threshold; at the filter, a fidelity at or above the threshold returns
\* it and a fidelity below restarts without a result.
C8_FilterGate ==
    /\ [](pc = "returned" => result.F_end >= params.filter_threshold)
    /\ [](pc # "returned" => result = NoResult)
    /\ [][pc = "filter" =>
            IF F_end >= params.filter_threshold
            THEN pc' = "returned" /\ result'.F_end = F_end
            ELSE pc' = "start" /\ result' = NoResult]_vars

C8_Witness ==
    /\ pc = "returned"
    /\ params.filter_threshold > 0
    /\ result.F_end = params.filter_threshold

\* C9: an executed purification round removes the first two registers of
\* both lists of its link; accepted, it puts one survivor with the new
\* fidelity and birth = now at the head of each; rejected, it puts nothing
\* back; the other registers keep their order and other lists are unchanged.
C9_PurifyFrame ==
    [][(pc = "purify" /\ last' \in {"PurifyAccept", "PurifyReject"}) =>
          /\ \A k \in DOMAIN memory \ PathKeysOf(cur[1]) : memory'[k] = memory[k]
          /\ \A k \in PathKeysOf(cur[1]) :
                LET old == memory[k]
                    new == memory'[k]
                    F_new == dejmps((fidelity(old[1], now)
                                       + fidelity(old[2], now)) \div 2)[1]
                IN  IF last' = "PurifyAccept"
                    THEN /\ Len(new) = Len(old) - 1
                         /\ new[1].F0 = F_new
                         /\ new[1].birth = now
                         /\ \A j \in 2 .. Len(new) : new[j] = old[j + 1]
                    ELSE /\ Len(new) = Len(old) - 2
                         /\ \A j \in 1 .. Len(new) : new[j] = old[j + 2]]_vars

C9_Witness ==
    /\ last = "PurifyAccept"
    /\ Len(path) >= 2
    /\ \E i \in Indices(path) :
          /\ \A k \in PathKeysOf(i) :
                /\ Len(memory[k]) >= 2
                /\ memory[k][1].birth = now
                /\ memory[k][1].pur >= 1
                /\ memory[k][2].pur = 0

\* C10: under purify_then_swap the register of every hop that enters
\* swapping has survived exactly `rounds` accepted purification rounds.
C10_ExactlyRoundsPurified ==
    (pc = "swap" /\ params.strategy = "purify_then_swap") =>
        \A i \in Indices(path) :
            memory[<<path[i][1], path[i][2]>>][1].pur = rounds

\* number of entries of the path up to i that are the link of entry i, and
\* number of entries of the path that use the list k
Occ(i) == Cardinality({j \in 1 .. i : PathKeysOf(j) = PathKeysOf(i)})
Cnt(k) == Cardinality({j \in Indices(path) : k \in PathKeysOf(j)})
IsSwapThenPurify == params.strategy = "swap_then_purify"

\* C11: under swap_then_purify an iteration reaches the filter with exactly
\* rounds + 1 candidates and exactly `rounds` accepted end-to-end rounds;
\* every candidate is the swap of one register per path link, and exactly
\* those registers leave both endpoint lists; a rejected end-to-end round
\* restarts the iteration without filtering.
C11_EndCandidates ==
    /\ []((pc = "filter" /\ IsSwapThenPurify) =>
             /\ Len(end_pairs) = rounds + 1
             /\ cur[1] - 2 = rounds)
    /\ [][(IsSwapThenPurify /\ last' \in {"Swap", "JoinExtra"}
              /\ pc \in {"swap", "join_extra"} /\ pc' = "collect") =>
            LET used == [i \in Indices(path) |->
                            fidelity(memory[<<path[i][1], path[i][2]>>][Occ(i)], now)]
            IN  /\ Len(end_pairs') = IF pc = "swap" THEN 1 ELSE Len(end_pairs) + 1
                /\ end_pairs'[Len(end_pairs')] = SwapFold(used[1], used, 2)
                /\ \A k \in DOMAIN memory :
                      memory'[k] = SubSeq(memory[k], Cnt(k) + 1, Len(memory[k]))]_vars
    /\ [][(pc = "end_purify" /\ last' = "EndPurifyReject") =>
            (pc' = "start" /\ result' = NoResult)]_vars

\* C12: an attempt stores registers only when it completes successfully:
\* one register of baseline fidelity, born at the completion time, appended
\* to each endpoint's list of the link, one round trip after the attempt
\* started; a failed attempt and a starting attempt change no list.
C12_StoreOnSuccess ==
    [][\A i \in Indices(procs) : (i \in Indices(procs')) =>
          /\ (procs[i].st = "init" /\ procs'[i].st = "waiting") =>
                /\ memory' = memory
                /\ procs'[i].wake = now + 2 * params.link_length
          /\ (procs[i].st = "waiting" /\ procs'[i].st = "finished") =>
                LET ka    == <<procs[i].link[1], procs[i].link[2]>>
                    kb    == <<procs[i].link[2], procs[i].link[1]>>
                    fresh == [F0 |-> F0_LINK, birth |-> procs[i].wake, pur |-> 0]
                IN  /\ now' = procs[i].wake
                    /\ IF procs[i].success
                       THEN /\ memory'[ka] = Append(memory[ka], fresh)
                            /\ memory'[kb] = Append(memory[kb], fresh)
                            /\ \A k \in DOMAIN memory \ {ka, kb} :
                                  memory'[k] = memory[k]
                       ELSE memory' = memory]_vars

C12_Witness ==
    /\ last = "ProcResume"
    /\ now > 0
    /\ Len(path) >= 2
    /\ memory[<<path[1][1], path[1][2]>>] = <<>>
    /\ procs[1].st = "finished"
    /\ LET k == <<path[2][2], path[2][1]>>
       IN  /\ Len(memory[k]) = 1
           /\ memory[k][1] = [F0 |-> F0_LINK, birth |-> now, pur |-> 0]

\* C13: the clock moves only when a waiting attempt's round trip ends; the
\* supply check, purification, swapping, register removal and filtering all
\* leave it unchanged.
C13_ClockOnlyWhileWaiting ==
    [][(now' # now) =>
          /\ pc \in JoinStates
          /\ pc' = pc
          /\ WaitIdx # {}
          /\ last' = "ProcResume"
          /\ now' = now + 2 * params.link_length]_vars

C13_Witness ==
    /\ pc = "returned"
    /\ trials = 1
    /\ IsSwapThenPurify
    /\ rounds >= 1
    /\ Len(path) >= 2
    /\ result.latency = (rounds + 1) * 2 * params.link_length

C15_PopContract ==
    [][(last' = "NodePop" /\ call'.op = "pop") =>
          LET k   == call'.key
              n   == call'.n
              old == memory[k]
              new == memory'[k]
          IN  IF Len(old) < n
              THEN /\ error' = "has only"
                   /\ memory' = memory
              ELSE /\ error' = "none"
                   /\ Len(call'.ret) = n
                   /\ \A j \in 1 .. n : call'.ret[j] = old[j]
                   /\ Len(new) = Len(old) - n
                   /\ \A j \in 1 .. Len(new) : new[j] = old[j + n]
                   /\ \A o \in DOMAIN memory \ {k} : memory'[o] = memory[o]]_vars

C15_Witness ==
    /\ last = "NodePop"
    /\ error = "none"
    /\ call.n = 2
    /\ Len(call.ret) = 2
    /\ call.ret[1].F0 # call.ret[2].F0
    /\ Len(memory[call.key]) = 1
    /\ memory[call.key][1].F0 = call.ret[2].F0

\* a threshold between the swapped and the baseline fidelity
BetweenThreshold == (F0_LINK + swap(F0_LINK, F0_LINK)) \div 2

CertainConfigs ==
    {[c EXCEPT !.filter_threshold = t] : c \in Configs,
                                         t \in Thresholds \cup {BetweenThreshold}}

\* one trial on links whose success_prob is 1
CertainInit == Start(CertainConfigs, TRUE, {Entropy}, {OneRun})
CertainSpec == CertainInit /\ [][Next]_vars

\* the fidelity of a path swapped from baseline registers
BaselineSwapped ==
    SwapFold(F0_LINK, [i \in Indices(path) |-> F0_LINK], 2)

\* C16 as stated: with success_prob = 1 on every link, rounds = 0 and a
\* threshold below the baseline fidelity, the trial returns in its first
\* outer iteration.
C16_FirstIteration ==
    (success_prob = FScale /\ rounds = 0
        /\ params.filter_threshold < F0_LINK) =>
       /\ trials <= 1
       /\ pc # "raised"

\* C16 amended: a trial with rounds = 0 in which no attempt has failed and
\* whose threshold is at most the baseline fidelity swapped across the path
\* never starts a second outer iteration and never raises; it returns with
\* trials = 1.
C16_FirstIterationWhenAllSucceed ==
    (rounds = 0 /\ ~gen_failed
        /\ params.filter_threshold <= BaselineSwapped) =>
       /\ trials <= 1
       /\ pc # "raised"
       /\ pc = "returned" =>
             (trials = 1 /\ result.F_end = BaselineSwapped
                /\ result.raw_pairs = Len(path))

C16_Witness ==
    /\ pc = "returned"
    /\ success_prob = FScale
    /\ rounds = 0
    /\ ~gen_failed
    /\ Len(path) >= 2
    /\ IsSwapThenPurify
    /\ params.filter_threshold = 0
    /\ trials = 1

\* C17: the raw-pair counter equals the number of attempts launched since
\* the trial began, over all outer iterations and inner repetitions; it
\* never decreases, and the returned value is the number of attempts that
\* ran.
C17_RawPairsCountsAttempts ==
    /\ [](raw_pairs = attempts + Cardinality(InitIdx))
    /\ [](pc = "returned" => result.raw_pairs = attempts)
    /\ [][raw_pairs' >= raw_pairs]_vars

C17_Witness ==
    /\ pc = "returned"
    /\ trials = 2
    /\ IsSwapThenPurify
    /\ retries = 1
    /\ gen_failed
    /\ result.raw_pairs = attempts
    /\ attempts > (rounds + 1) * Len(path)

Ended == run_pc \in {"done", "propagated"}

\* C18: when a trial of a batch raises the budget error, run() ends with
\* that error: no summary is computed, returned or printed, the rows of the
\* earlier trials are not aggregated, and no further trial starts.
C18_FatalRunPropagates ==
    /\ [](error = BudgetError =>
             /\ summary = NoSummary
             /\ emitted = "none"
             /\ run_pc \in {"trial", "propagated"})
    /\ [](run_pc = "done" => error = "none")
    /\ [][error = BudgetError =>
            /\ run_pc' = "propagated"
            /\ UNCHANGED <<per, pc, trials, now, procs, memory, error>>]_vars

C18_Witness ==
    /\ run_pc = "propagated"
    /\ error = BudgetError
    /\ batch.runs = 2
    /\ Len(per) = 1
    /\ ~batch.collect
    /\ summary = NoSummary

End == [run_pc |-> run_pc, per |-> per, summary |-> summary, error |-> error]

\* the generator model is deterministic: two invocations that start from
\* the same generator state end the same way
SameGeneratorSameEnd ==
    (invocation = 2 /\ Ended /\ first.rng0 = first.rng1) => End = first.end

\* C20: two invocations with the same configuration and the same seed draw
\* the same outcomes and end with the same rows and the same summary.
C20_SeedDeterminism ==
    (invocation = 2 /\ Ended) => End = first.end

\* ------------------------------------------------------------------ C21
\* C21: the error of an exhausted trial budget carries the trial count and
\* a description of the path: both appear among the parts of its message.
C21_BudgetErrorNamesTrialsAndPath ==
    error = BudgetError =>
        LET args == ExceededArgs(trials, path)
        IN  /\ \E i \in 1 .. Len(args) : args[i] = ToString(trials)
            /\ \E i \in 1 .. Len(args) : args[i] = ToString(path)

\* ------------------------------------------------------------------ C22
\* C22: a resource error is fatal and never retried: once one is raised
\* the trial stays raised, no outer iteration starts and no run is started
\* again; the sweep lowers the threshold and reruns only after a budget
\* error, and after any other error it returns that error with the
\* threshold it had.
C22_ResourceErrorIsFatal ==
    /\ [][(error \in ResourceErrors) =>
            (/\ error' = error
             /\ pc' = pc
             /\ trials' = trials
             /\ raw_pairs' = raw_pairs
             /\ params' = params
             /\ run_pc' \in {run_pc, "propagated"})]_vars
    /\ [][params' # params =>
            (/\ error = BudgetError
             /\ run_pc = "propagated"
             /\ params'.filter_threshold < params.filter_threshold)]_vars
    /\ []((sweep.pc = "returned" /\ error \in ResourceErrors) =>
            (/\ sweep.status = "error"
             /\ sweep.thr = params.filter_threshold))

\* the sweep relaxed the threshold after a budget error, and the run with
\* the relaxed threshold ended in a resource error, which it returned
C22_Witness ==
    /\ sweep.pc = "returned"
    /\ error \in ResourceErrors
    /\ params.filter_threshold < sweep.thr_init

\* ------------------------------------------------------------------ C23
\* C23: a step of a generation attempt on link (X, Y), its start or its
\* resumption, leaves every busy flag and every memory list unchanged
\* except those X keeps for Y and Y keeps for X.
C23_AttemptTouchesOwnLinkOnly ==
    [][(last' \in {"ProcStart", "ProcResume"}) =>
          \A i \in Indices(procs) :
             (Len(procs') = Len(procs) /\ procs'[i].st # procs[i].st) =>
                LET l == procs[i].link
                IN  \A k \in DOMAIN memory \ {<<l[1], l[2]>>, <<l[2], l[1]>>} :
                       /\ comm_busy'[k] = comm_busy[k]
                       /\ memory'[k] = memory[k]]_vars

\* two attempts on links that share node x: the one on (x, y) has
\* finished and stored, the one on (x, z) is still waiting with its
\* interfaces busy
C23_Witness ==
    /\ last = "ProcResume"
    /\ \E k1 \in DOMAIN memory : \E k2 \in DOMAIN memory :
          /\ k1[1] = k2[1]
          /\ k1[2] # k2[2]
          /\ ~comm_busy[k1]
          /\ Len(memory[k1]) > 0
          /\ comm_busy[k2]
          /\ \E i \in WaitIdx :
                {procs[i].link[1], procs[i].link[2]} = {k2[1], k2[2]}

\* ------------------------------------------------------------------ C24
Ends(l) == {l[1], l[2]}
NodesOn(p) == UNION {Ends(p[i]) : i \in 1 .. Len(p)}
SimplePath(p) ==
    /\ \A i \in 1 .. Len(p) : p[i][1] # p[i][2]
    /\ \A i \in 1 .. (Len(p) - 1) : Cardinality(Ends(p[i]) \cap Ends(p[i + 1])) = 1
    /\ \A i \in 1 .. Len(p) : \A j \in 1 .. Len(p) : i # j => Ends(p[i]) # Ends(p[j])
    /\ Cardinality(NodesOn(p)) = Len(p) + 1

\* C24: the path is all n-1 links in creation order (linear), the n links
\* without the last (ring), the two hub links to two leaves (star), and in
\* every case a simple path: consecutive links share exactly one node, no
\* link and no node occurs twice.
C24_PathIsSimple ==
    LET n == params.nodes
        links == build(params.topology, n)
    IN  /\ params.topology = "linear" => Len(links) = n - 1 /\ path = links
        /\ params.topology = "ring" =>
              /\ Len(links) = n
              /\ path = [i \in 1 .. (n - 1) |-> links[i]]
        /\ params.topology = "star" =>
              /\ Len(path) = 2
              /\ \A i \in 1 .. 2 : \E j \in 1 .. Len(links) : path[i] = links[j]
              /\ \A i \in 1 .. 2 : 0 \in Ends(path[i])
        /\ SimplePath(path)

\* ------------------------------------------------------------------ C25
\* exact arithmetic on fractions
Abs(x) == IF x < 0 THEN -x ELSE x
RECURSIVE Gcd(_, _)
Gcd(a, b) == IF b = 0 THEN a ELSE Gcd(b, a % b)
Reduce(q) == LET g == Gcd(Abs(q[1]), q[2]) IN <<q[1] \div g, q[2] \div g>>
EqQ(p, q) == Reduce(p) = Reduce(q)
AddQ(p, q) == Reduce(<<p[1] * q[2] + q[1] * p[2], p[2] * q[2]>>)
MulQ(p, q) == Reduce(<<p[1] * q[1], p[2] * q[2]>>)
OneQ == <<1, 1>>
Whole(k) == <<k, 1>>
Inv(k) == <<1, k>>
\* x = (4 F1 - 1)(4 F2 - 1) / 3
WernerX(F1, F2) ==
    MulQ(MulQ(AddQ(MulQ(Whole(4), F1), Whole(-1)), AddQ(MulQ(Whole(4), F2), Whole(-1))),
         Inv(3))

\* C25 as stated: swap(F1, F2) equals (1 + 3x)/4 where
\* x = (4 F1 - 1)(4 F2 - 1)/3.
C25_SwapFormula ==
    call.op = "swap" =>
        EqQ(call.ret,
            MulQ(AddQ(OneQ, MulQ(Whole(3), WernerX(Q(call.key[1]), Q(call.key[2])))),
                 Inv(4)))

\* C25 amended: swap(F1, F2) equals (1 + x)/4 where
\* x = (4 F1 - 1)(4 F2 - 1)/3; in particular swap(1, 1) = 1.
C25_SwapFormulaWernerX ==
    call.op = "swap" =>
        /\ EqQ(call.ret,
               MulQ(AddQ(OneQ, WernerX(Q(call.key[1]), Q(call.key[2]))), Inv(4)))
        /\ (call.key = <<FScale, FScale>> => EqQ(call.ret, OneQ))

C25_Witness ==
    /\ call.op = "swap"
    /\ call.key[1] # call.key[2]
    /\ call.key[1] * 4 > FScale
    /\ call.key[2] * 4 > FScale
    /\ ~EqQ(call.ret, Q(call.key[1]))

\* ------------------------------------------------------------------ C26
\* C26: swap is commutative and associative, so the fold over the
\* fidelities of the hops gives the same end-to-end fidelity for every
\* ordering and grouping of the hops, each hop combined exactly once.
C26_SwapCommutesAndAssociates ==
    /\ call.op = "swap" =>
          EqQ(call.ret, swapQ(Q(call.key[2]), Q(call.key[1])))
    /\ call.op = "fold" =>
          LET F1 == Q(call.key[1])
              F2 == Q(call.key[2])
              F3 == Q(call.key[3])
          IN  /\ EqQ(swapQ(swapQ(F1, F2), F3), swapQ(F1, swapQ(F2, F3)))
              /\ \A o \in Orderings :
                    EqQ(call.ret[o], swapQ(F1, swapQ(F2, F3)))

\* three hops of different fidelities, none of them at the fixed point 1/4
C26_Witness ==
    /\ call.op = "fold"
    /\ Cardinality({call.key[1], call.key[2], call.key[3]}) = 3
    /\ \A i \in 1 .. 3 : call.key[i] * 4 > FScale /\ call.key[i] < FScale

\* ------------------------------------------------------------------ C27
\* C27: for 0 < F < 1, dejmps(F) returns F' in [0, 1] and P in (0, 1],
\* and F' < 1; F' = 1 at F = 1 only.
C27_DejmpsRange ==
    call.op = "dejmps" =>
        LET f == call.key[1]
            Fn == call.ret.F_new
            P == call.ret.P
        IN  /\ f < FScale =>
                  /\ 0 <= Fn[1] /\ Fn[1] < Fn[2]
                  /\ 0 < P[1] /\ P[1] <= P[2]
            /\ f = FScale => Fn[1] = Fn[2]

C27_Witness ==
    /\ call.op = "dejmps"
    /\ call.key[1] < FScale
    /\ 2 * call.ret.F_new[1] > call.ret.F_new[2]

\* ------------------------------------------------------------------ C28
\* C28: on a linear path of three hops with equal links, success_prob = 1,
\* no decay configured, rounds = 0 and filter_threshold = 0, every trial
\* that returns has the final fidelity swap(swap(F0, F0), F0), whatever
\* happened in the earlier iterations of that trial.
C28_ThreeHopBaseline ==
    (pc = "returned" /\ rounds = 0) =>
        result.F_end = swap(swap(F0_LINK, F0_LINK), F0_LINK)

\* ------------------------------------------------------------------ C29
\* decay of f over dt ticks with the factor d per tick
RECURSIVE DecayWith(_, _, _)
DecayWith(d, f, dt) ==
    IF dt <= 0 THEN f ELSE DecayWith(d, (f * d[1]) \div d[2], dt - 1)

\* C29: the coherence time run() was called with is the decay constant of
\* every register: fidelity() of a register written with F0 and read dt
\* later is F0 decayed over dt with the configured constant.
C29_ConfiguredCoherenceDecay ==
    \A k \in DOMAIN memory : \A i \in 1 .. Len(memory[k]) :
        fidelity(memory[k][i], now)
            = DecayWith(physics, memory[k][i].F0, now - memory[k][i].birth)

\* ------------------------------------------------------------------ C30
\* C30: the two endpoints of every path link hold the same number of
\* registers for each other, and the registers at the same position of
\* the two lists have the same initial fidelity and the same birth time.
\* (An attempt stores at both endpoints, a round of purification and the
\* removal after a swap act on both, each in one step of the
\* orchestrator: the states it observes are all the states.)
C30_EndpointsMirror ==
    \A i \in Indices(path) :
        LET ka == <<path[i][1], path[i][2]>>
            kb == <<path[i][2], path[i][1]>>
        IN  /\ Len(memory[ka]) = Len(memory[kb])
            /\ \A j \in 1 .. Len(memory[ka]) :
                  /\ memory[ka][j].F0 = memory[kb][j].F0
                  /\ memory[ka][j].birth = memory[kb][j].birth

\* after an accepted round of purification: the survivor, reset, stands at
\* the head of both lists before a register that was not purified
C30_Witness ==
    /\ last = "PurifyAccept"
    /\ \E i \in Indices(path) :
          LET ka == <<path[i][1], path[i][2]>>
          IN  /\ Len(memory[ka]) >= 2
              /\ memory[ka][1].pur > 0
              /\ memory[ka][2].pur = 0
              /\ memory[ka][1].F0 # memory[ka][2].F0

\* ------------------------------------------------------------------ C31
DistinctLinks ==
    \A i \in Indices(path) : \A j \in Indices(path) :
        i # j => Ends(path[i]) # Ends(path[j])
InInnerLoop == pc \in {"collect", "join_extra"}
\* batches the inner loop has launched in this outer iteration
InnerBatches ==
    (Len(end_pairs) - 1) + retries + (IF pc = "join_extra" THEN 1 ELSE 0)

\* C31: under swap_then_purify on a path of distinct links the inner loop
\* never takes its retry branch, has launched exactly `rounds` batches
\* when it is left for the purification of the candidates, and is
\* always left.
C31_InnerLoopTerminates ==
    /\ []((params.strategy = "swap_then_purify" /\ DistinctLinks) =>
            (/\ retries = 0
             /\ InInnerLoop => InnerBatches <= rounds
             /\ pc = "end_purify" => InnerBatches = rounds))
    /\ (params.strategy = "swap_then_purify" /\ DistinctLinks /\ InInnerLoop)
          ~> ~InInnerLoop

\* the last candidate was swapped although every attempt of the inner
\* loop on some link had failed: the registers in stock were used up
C31_Witness ==
    /\ params.strategy = "swap_then_purify"
    /\ DistinctLinks
    /\ rounds >= 1
    /\ last = "JoinExtra"
    /\ Len(end_pairs) = rounds + 1
    /\ \E i \in Indices(path) : Len(memory[<<path[i][1], path[i][2]>>]) = 0

\* ------------------------------------------------------------------ C32
\* C32: every outer iteration that passes the budget check launches at
\* least one attempt and so counts at least one more raw pair; the join on
\* its batch ends strictly later than the iteration began, so that the
\* clock and raw_pairs strictly increase from one restart to the next;
\* the latency returned is strictly positive.
C32_EveryIterationLaunches ==
    /\ [][(last' = "IterStart") =>
            (/\ Len(procs') >= 1
             /\ pc' = "join_hops"
             /\ raw_pairs' > raw_pairs)]_vars
    /\ [][(pc = "join_hops" /\ pc' # "join_hops") =>
            \A i \in Indices(procs) : now > procs[i].wake - RoundTrip(procs[i].link)]_vars
    /\ [](pc = "returned" => result.latency > 0)

\* ------------------------------------------------------------------ C33
\* C33: with rounds = 0 the trial with one strategy and the trial with the
\* other on the same path, threshold and draws go through the same
\* lists, busy flags and clock values, start the same number of attempts,
\* make the same number of draws and end alike: the same result (latency,
\* fidelity, raw_pairs) or the same error.
C33_StrategiesAgreeWithoutRounds ==
    (invocation = 2 /\ rounds = 0 /\ pc \in {"returned", "raised"}) =>
        /\ pc = first.end.pc
        /\ result = first.end.result
        /\ error = first.end.error
        /\ trace.seq = first.end.trace
        /\ attempts = first.end.attempts
        /\ rng = first.end.rng

\* both trials returned, after an iteration that a failed attempt ended
C33_Witness ==
    /\ invocation = 2
    /\ rounds = 0
    /\ pc = "returned"
    /\ trials = 2
    /\ Len(path) >= 2
    /\ first.end.pc = "returned"
    /\ Len(first.end.trace) >= 4

====
